---------------------------- MODULE Spec2Model ----------------------------
(***************************************************************************)
(* Products REST service (service/models.py, service/routes.py).           *)
(*                                                                         *)
(* The state is the committed content of the products table, the id        *)
(* sequence of the table, the wall clock read by datetime.now() and the    *)
(* HTTP response of the request served last.  Every request handler is one *)
(* action: a request is served by one worker from its first line to its    *)
(* response.  The session of a request is discarded when the request ends, *)
(* so only what Products.create / update / delete commit reaches the store.*)
(*                                                                         *)
(* Strings are sequences of one-character strings, so that lower-casing,   *)
(* LIKE matching and decimal parsing are computed and not assumed.         *)
(***************************************************************************)
EXTENDS Integers, Sequences, FiniteSets, TLC

(***************************************************************************)
(* Bounds of the model                                                     *)
(***************************************************************************)
\* how many ids the table's sequence hands out (number of successful creates)
MaxProducts == 1
\* last instant of the wall clock
MaxClock == 2
\* rows of the products table where requests list the catalog
MaxCatalog == 2
\* page numbers and page sizes of the list requests examined
MaxPage == 3
MaxLimit == 2

(***************************************************************************)
(* JSON values of request bodies and of in-memory attributes               *)
(***************************************************************************)
JNull == [t |-> "null"]
JStr(s) == [t |-> "str", v |-> s]
JBool(b) == [t |-> "bool", v |-> b]
\* a JSON number, kept as its decimal literal
JNum(lit) == [t |-> "num", v |-> lit]
\* a datetime value
JTime(n) == [t |-> "time", v |-> n]
\* a JSON array (its elements play no part)
JList == [t |-> "list"]
\* a JSON object: a function from a set of keys to JSON values
JObj(f) == [t |-> "obj", v |-> f]

IsStr(x) == x.t = "str"
IsBool(x) == x.t = "bool"
IsNum(x) == x.t = "num"
IsObj(x) == x.t = "obj"

HasKey(data, k) == IsObj(data) /\ k \in DOMAIN data.v
\* dict.get(key, default)
Get(data, k, default) == IF k \in DOMAIN data.v THEN data.v[k] ELSE default

(***************************************************************************)
(* Characters and str.lower()                                              *)
(***************************************************************************)
LowerChar(c) ==
  CASE c = "A" -> "a"
    [] c = "B" -> "b"
    [] c = "C" -> "c"
    [] c = "D" -> "d"
    [] c = "E" -> "e"
    [] c = "N" -> "n"
    [] c = "O" -> "o"
    [] c = "R" -> "r"
    [] c = "S" -> "s"
    [] c = "T" -> "t"
    [] c = "U" -> "u"
    [] c = "Y" -> "y"
    [] OTHER -> c

Lower(s) == [i \in 1..Len(s) |-> LowerChar(s[i])]

(***************************************************************************)
(* Decimal numbers: the price column is Numeric(14, 2).  A stored price is *)
(* its number of hundredths.                                               *)
(***************************************************************************)
Digits == <<"0", "1", "2", "3", "4", "5", "6", "7", "8", "9">>
IsDigit(c) == \E i \in 1..Len(Digits) : Digits[i] = c
DigitVal(c) == (CHOOSE i \in 1..Len(Digits) : Digits[i] = c) - 1

RECURSIVE DigitsValue(_)
DigitsValue(s) ==
  IF s = <<>> THEN 0
  ELSE DigitsValue(SubSeq(s, 1, Len(s) - 1)) * 10 + DigitVal(s[Len(s)])

RECURSIVE StripZeros(_)
StripZeros(s) ==
  IF s # <<>> /\ Head(s) = "0" THEN StripZeros(Tail(s)) ELSE s

Invalid == [t |-> "invalid"]

NumericPrecision == 14
NumericScale == 2

\* what the database reads from a decimal literal for a Numeric(14, 2)
\* column: the value in hundredths, rounded half away from zero, and whether
\* the literal is taken at all (invalid input syntax, numeric overflow)
ParseNumeric(lit) ==
  LET neg   == lit # <<>> /\ Head(lit) = "-"
      body  == IF neg THEN Tail(lit) ELSE lit
      dots  == {i \in 1..Len(body) : body[i] = "."}
      dot   == IF dots = {} THEN Len(body) + 1 ELSE CHOOSE i \in dots : TRUE
      whole == SubSeq(body, 1, dot - 1)
      frac  == SubSeq(body, dot + 1, Len(body))
      d(i)  == IF i <= Len(frac) THEN DigitVal(frac[i]) ELSE 0
      wellFormed ==
        /\ Cardinality(dots) <= 1
        /\ Len(whole) + Len(frac) >= 1
        /\ \A i \in 1..Len(whole) : IsDigit(whole[i])
        /\ \A i \in 1..Len(frac) : IsDigit(frac[i])
        /\ Len(StripZeros(whole)) <= NumericPrecision - NumericScale
  IN IF ~wellFormed THEN [valid |-> FALSE, cents |-> 0]
     ELSE LET mag == DigitsValue(whole) * 100 + d(1) * 10 + d(2)
                     + (IF d(3) >= 5 THEN 1 ELSE 0)
          IN [valid |-> TRUE, cents |-> IF neg THEN 0 - mag ELSE mag]

RECURSIVE NatToDigits(_)
NatToDigits(n) ==
  IF n < 10 THEN <<Digits[n + 1]>>
  ELSE Append(NatToDigits(n \div 10), Digits[(n % 10) + 1])

\* str(Decimal) of a value read back from the Numeric(14, 2) column
DecimalStr(cents) ==
  LET mag == IF cents < 0 THEN 0 - cents ELSE cents
  IN (IF cents < 0 THEN <<"-">> ELSE <<>>)
     \o NatToDigits(mag \div 100)
     \o <<".", Digits[((mag % 100) \div 10) + 1], Digits[(mag % 10) + 1]>>

\* repr(float(s)) for a string s with two fractional digits
FloatStr(s) ==
  LET n == Len(s)
  IN IF s[n] # "0" THEN s ELSE SubSeq(s, 1, n - 1)

(***************************************************************************)
(* SQL LIKE / ILIKE                                                        *)
(***************************************************************************)
\* s LIKE p: % matches any run of characters, _ any one character
RECURSIVE Like(_, _)
Like(s, p) ==
  IF p = <<>> THEN s = <<>>
  ELSE IF Head(p) = "%"
       THEN Like(s, Tail(p)) \/ (s # <<>> /\ Like(Tail(s), p))
       ELSE /\ s # <<>>
            /\ Head(p) = "_" \/ Head(p) = Head(s)
            /\ Like(Tail(s), Tail(p))

\* column.ilike(pattern): NULL matches nothing
ILike(col, p) == IsStr(col) /\ Like(Lower(col.v), Lower(p))

(***************************************************************************)
(* Products: the table schema                                              *)
(***************************************************************************)
\* db.String(63) of name and category, db.String(1023) of description and
\* image_url
ShortStringLen == 63
LongStringLen == 1023

JInt(n) == [t |-> "int", v |-> n]
\* a Decimal read from the price column
JDec(cents) == [t |-> "dec", v |-> cents]

RequiredKeys == <<"name", "description", "price", "image_url", "category">>
Flags == {"availability", "discontinued", "favorited"}
Dates == {"created_date", "updated_date"}
Columns == {RequiredKeys[i] : i \in 1..Len(RequiredKeys)} \cup Flags \cup Dates

\* Column(default=...) of the schema
HasDefault(col) == col \in Flags \cup Dates
DefaultOf(col, now) ==
  CASE col = "availability" -> TRUE
    [] col = "favorited" -> FALSE
    [] col = "discontinued" -> FALSE
    [] col \in Dates -> now

\* the attributes of an instance loaded from a row
Loaded(row) ==
  [c \in Columns |->
     CASE c = "name" -> JStr(row.name)
       [] c = "price" -> JDec(row.price)
       [] c \in Flags -> JBool(row[c])
       [] c \in Dates -> JTime(row[c])
       [] OTHER -> row[c]]

\* the attributes of Products()
Fresh == [c \in Columns |-> JNull]

\* a database that takes every value
Storable_Any(c, x) == TRUE

\* whether the database takes value x for column c
Storable(c, x) ==
  CASE c = "name" -> IsStr(x) /\ Len(x.v) <= ShortStringLen
    [] c = "category" ->
         x = JNull \/ (IsStr(x) /\ Len(x.v) <= ShortStringLen)
    [] c \in {"description", "image_url"} ->
         x = JNull \/ (IsStr(x) /\ Len(x.v) <= LongStringLen)
    [] c = "price" ->
         \/ x.t = "dec"
         \/ (IsStr(x) \/ IsNum(x)) /\ ParseNumeric(x.v).valid
    [] c \in Flags ->
         \/ IsBool(x)
         \/ IsNum(x) /\ x.v \in {<<"0">>, <<"1">>}
    [] c \in Dates -> x.t = "time"

\* the value column c holds once x is stored
Stored(c, x) ==
  CASE c = "name" -> x.v
    [] c = "price" -> IF x.t = "dec" THEN x.v ELSE ParseNumeric(x.v).cents
    [] c \in Flags -> IF IsBool(x) THEN x.v ELSE x.v = <<"1">>
    [] c \in Dates -> x.v
    [] OTHER -> x

\* INSERT of an instance: an attribute that is None takes the column
\* default when the column has one.  Invalid when the statement fails.
Insert(attrs, id, now) ==
  LET val(c) == IF attrs[c] = JNull /\ HasDefault(c)
                THEN DefaultOf(c, now)
                ELSE Stored(c, attrs[c])
      ok == \A c \in Columns :
              (attrs[c] = JNull /\ HasDefault(c)) \/ Storable(c, attrs[c])
  IN IF ~ok THEN Invalid
     ELSE [c \in Columns \cup {"id"} |-> IF c = "id" THEN id ELSE val(c)]

\* UPDATE of a loaded instance: the statement sets the attributes whose
\* value differs from the loaded one; updated_date takes its onupdate value
\* unless the statement sets it.  No statement when nothing differs.
Update(row, attrs, now) ==
  LET loaded == Loaded(row)
      changed == {c \in Columns : attrs[c] # loaded[c]}
      ok == \A c \in changed : Storable(c, attrs[c])
      val(c) == IF c \in changed THEN Stored(c, attrs[c])
                ELSE IF c = "updated_date" THEN now
                ELSE row[c]
  IN IF changed = {} THEN row
     ELSE IF ~ok THEN Invalid
     ELSE [c \in Columns \cup {"id"} |-> IF c = "id" THEN row.id ELSE val(c)]

(***************************************************************************)
(* Products.serialize / Products.deserialize                               *)
(***************************************************************************)
\* a serialize that renders the whole part of the price only
serialize_WholePrice(row) ==
  JObj([c \in Columns \cup {"id"} |->
     CASE c = "id" -> JInt(row.id)
       [] c = "name" -> JStr(row.name)
       [] c = "price" ->
            JStr(NatToDigits((IF row.price < 0 THEN 0 - row.price ELSE row.price)
                             \div 100))
       [] c \in Flags -> JBool(row[c])
       [] c \in Dates -> JTime(row[c])
       [] OTHER -> row[c]])

serialize(row) ==
  JObj([c \in Columns \cup {"id"} |->
     CASE c = "id" -> JInt(row.id)
       [] c = "name" -> JStr(row.name)
       [] c = "price" -> JStr(DecimalStr(row.price))
       [] c \in Flags -> JBool(row[c])
       [] c \in Dates -> JTime(row[c])
       [] OTHER -> row[c]])

\* index of the first required key the mapping lacks (Len + 1 when none)
FirstMissing(data) ==
  LET miss == {i \in 1..Len(RequiredKeys) : RequiredKeys[i] \notin DOMAIN data.v}
  IN IF miss = {} THEN Len(RequiredKeys) + 1
     ELSE CHOOSE i \in miss : \A j \in miss : i <= j

\* deserialize(data) on an instance with attributes attrs: the exception it
\* ends with ("" when it returns) and the attributes it leaves.  The
\* assignments run in source order, so the ones before the failing lookup
\* have been made.
deserialize(attrs, data, now) ==
  IF ~IsObj(data)
  THEN [error |-> "TypeError", attrs |-> attrs]
  ELSE LET m == FirstMissing(data)
           assigned == {RequiredKeys[i] : i \in 1..(m - 1)}
       IN IF m <= Len(RequiredKeys)
          THEN [error |-> "KeyError",
                attrs |-> [c \in Columns |->
                             IF c \in assigned THEN data.v[c] ELSE attrs[c]]]
          ELSE [error |-> "",
                attrs |->
                  [c \in Columns |->
                     CASE c \in assigned -> data.v[c]
                       [] c = "availability" -> Get(data, c, JBool(TRUE))
                       [] c = "discontinued" -> Get(data, c, JBool(FALSE))
                       [] c = "favorited" -> Get(data, c, JBool(FALSE))
                       [] c \in Dates -> Get(data, c, JTime(now))]]

(***************************************************************************)
(* Products class methods: queries over the committed rows                 *)
(***************************************************************************)
Rows(st) == {st[i] : i \in {j \in DOMAIN st : st[j] # JNull}}

find(st, by_id) == IF by_id \in DOMAIN st THEN st[by_id] ELSE JNull

all(st) == {r \in Rows(st) : r.discontinued = FALSE}

\* find_by_name with the filter on discontinued left out
find_by_name_Unfiltered(st, name) ==
  {r \in Rows(st) : ILike(JStr(r.name), <<"%">> \o name \o <<"%">>)}

find_by_name(st, name) ==
  {r \in Rows(st) : r.discontinued = FALSE
                    /\ ILike(JStr(r.name), <<"%">> \o name \o <<"%">>)}

find_by_category(st, category) ==
  {r \in Rows(st) : r.discontinued = FALSE
                    /\ ILike(r.category, <<"%">> \o category \o <<"%">>)}

find_by_availability(st, available) ==
  {r \in Rows(st) : r.discontinued = FALSE /\ r.availability = available}

VARIABLES
  store,   \* the products table: id -> committed row, JNull where no row is
  nextId,  \* next value of the id sequence of the table
  clock,   \* datetime.now(timezone.utc)
  resp,    \* the response to the last request, and when it was made
  session  \* per request in progress: the instance it loaded and assigned,
           \* between Products.find and db.session.commit
vars == <<store, nextId, clock, resp, session>>

\* the requests that may be in progress at the same time
Workers == {"w1", "w2"}

\* no request in progress
Idle == [pc |-> "idle"]

Ids == 1..MaxProducts

(***************************************************************************)
(* HTTP: status codes, response shaping                                    *)
(***************************************************************************)
HTTP_200_OK == 200
HTTP_201_CREATED == 201
HTTP_204_NO_CONTENT == 204
HTTP_400_BAD_REQUEST == 400
HTTP_404_NOT_FOUND == 404
HTTP_415_UNSUPPORTED_MEDIA_TYPE == 415

\* the error handler registered for DataValidationError answers 400
DataValidationErrorStatus == HTTP_400_BAD_REQUEST

\* product_model: the fields a marshalled response carries
product_model ==
  {"id", "name", "category", "availability", "price", "description",
   "discontinued", "favorited"}

\* api.marshal_with(product_model): only the fields of the model are kept,
\* price goes through fields.Float
marshal(data) ==
  JObj([k \in product_model |->
          IF k = "price" THEN JNum(FloatStr(data.v[k].v)) ELSE data.v[k]])

ErrorBody(message) == [t |-> "error", message |-> message]

Response(op, id, code, body, headers) ==
  [op |-> op, id |-> id, status |-> code, body |-> body, headers |-> headers]

\* abort(error_code, message)
Abort(op, id, code, message) == Response(op, id, code, ErrorBody(message), {})

\* a response as the client receives it, with the time of the request
Answered(r, now) ==
  [op |-> r.op, id |-> r.id, status |-> r.status, body |-> r.body,
   headers |-> r.headers, at |-> now]

JSON == <<"a", "p", "p", "l", "i", "c", "a", "t", "i", "o", "n", "/", "j", "s", "o", "n">>

(***************************************************************************)
(* Init                                                                    *)
(***************************************************************************)
Init ==
  /\ store = [i \in Ids |-> JNull]
  /\ nextId = 1
  /\ clock = 0
  /\ resp = Answered(Response("", 0, 0, JNull, {}), 0)
  /\ session = [w \in Workers |-> Idle]

\* time passes between requests
Tick ==
  /\ clock < MaxClock
  /\ clock' = clock + 1
  /\ UNCHANGED <<store, nextId, resp, session>>

(***************************************************************************)
(* GET /products/{id}                                                      *)
(***************************************************************************)
get(st, product_id) ==
  LET product == find(st, product_id)
  IN IF product = JNull \/ product.discontinued
     THEN Abort("get", product_id, HTTP_404_NOT_FOUND, "was not found")
     ELSE Response("get", product_id, HTTP_200_OK, marshal(serialize(product)), {})

ProductResource_get(product_id) ==
  /\ resp' = Answered(get(store, product_id), clock)
  /\ UNCHANGED <<store, nextId, clock, session>>

(***************************************************************************)
(* PUT /products/{id}                                                      *)
(***************************************************************************)
\* put with only the lookup by id: a discontinued product is updated too
put_NoDiscontinuedCheck(st, product_id, content_type, payload, now) ==
  LET product == find(st, product_id)
      d == deserialize(Loaded(product), payload, now)
      row == Update(product, d.attrs, now)
  IN IF product = JNull
     THEN [store |-> st,
           resp |-> Abort("put", product_id, HTTP_404_NOT_FOUND, "was not found")]
     ELSE IF content_type # JStr(JSON)
     THEN [store |-> st,
           resp |-> Abort("put", product_id, HTTP_415_UNSUPPORTED_MEDIA_TYPE,
                          "Unsupported Media Type")]
     ELSE IF d.error # ""
     THEN [store |-> st,
           resp |-> Abort("put", product_id, DataValidationErrorStatus, d.error)]
     ELSE IF row = Invalid
     THEN [store |-> st,
           resp |-> Abort("put", product_id, DataValidationErrorStatus, "DataError")]
     ELSE [store |-> [st EXCEPT ![product_id] = row],
           resp |-> Response("put", product_id, HTTP_200_OK,
                             marshal(serialize(row)), {})]

\* an update that commits the instance as a failed deserialize left it
put_CommitsAssigned(st, product_id, content_type, payload, now) ==
  LET product == find(st, product_id)
      d == deserialize(Loaded(product), payload, now)
      row == Update(product, d.attrs, now)
  IN IF product = JNull \/ product.discontinued
     THEN [store |-> st,
           resp |-> Abort("put", product_id, HTTP_404_NOT_FOUND, "was not found")]
     ELSE IF content_type # JStr(JSON)
     THEN [store |-> st,
           resp |-> Abort("put", product_id, HTTP_415_UNSUPPORTED_MEDIA_TYPE,
                          "Unsupported Media Type")]
     ELSE IF row = Invalid
     THEN [store |-> st,
           resp |-> Abort("put", product_id, DataValidationErrorStatus, "DataError")]
     ELSE IF d.error # ""
     THEN [store |-> [st EXCEPT ![product_id] = row],
           resp |-> Abort("put", product_id, DataValidationErrorStatus, d.error)]
     ELSE [store |-> [st EXCEPT ![product_id] = row],
           resp |-> Response("put", product_id, HTTP_200_OK,
                             marshal(serialize(row)), {})]

\* what the handler commits and answers, given the request and the store
put(st, product_id, content_type, payload, now) ==
  LET product == find(st, product_id)
      d == deserialize(Loaded(product), payload, now)
      row == Update(product, d.attrs, now)
  IN IF product = JNull \/ product.discontinued
     THEN [store |-> st,
           resp |-> Abort("put", product_id, HTTP_404_NOT_FOUND, "was not found")]
     ELSE IF content_type # JStr(JSON)
     THEN [store |-> st,
           resp |-> Abort("put", product_id, HTTP_415_UNSUPPORTED_MEDIA_TYPE,
                          "Unsupported Media Type")]
     ELSE IF d.error # ""
     THEN [store |-> st,
           resp |-> Abort("put", product_id, DataValidationErrorStatus, d.error)]
     ELSE IF row = Invalid
     THEN [store |-> st,
           resp |-> Abort("put", product_id, DataValidationErrorStatus, "DataError")]
     ELSE [store |-> [st EXCEPT ![product_id] = row],
           resp |-> Response("put", product_id, HTTP_200_OK,
                             marshal(serialize(row)), {})]

ProductResource_put(product_id, content_type, payload) ==
  LET r == put(store, product_id, content_type, payload, clock)
  IN /\ store' = r.store
     /\ resp' = Answered(r.resp, clock)
     /\ UNCHANGED <<nextId, clock, session>>

(***************************************************************************)
(* DELETE /products/{id}                                                   *)
(***************************************************************************)
\* delete that leaves the row of a discontinued product in place
delete_ActiveOnly(st, product_id) ==
  [store |-> IF find(st, product_id) # JNull /\ ~find(st, product_id).discontinued
             THEN [st EXCEPT ![product_id] = JNull]
             ELSE st,
   resp |-> Response("delete", product_id, HTTP_204_NO_CONTENT, JNull, {})]

delete(st, product_id) ==
  [store |-> IF find(st, product_id) # JNull
             THEN [st EXCEPT ![product_id] = JNull]
             ELSE st,
   resp |-> Response("delete", product_id, HTTP_204_NO_CONTENT, JNull, {})]

ProductResource_delete(product_id) ==
  LET r == delete(store, product_id)
  IN /\ store' = r.store
     /\ resp' = Answered(r.resp, clock)
     /\ UNCHANGED <<nextId, clock, session>>

(***************************************************************************)
(* POST /products                                                          *)
(***************************************************************************)
\* a check that lets every Content-Type header through
check_content_type_Off(header) == FALSE

\* check_content_type("application/json"): TRUE when it aborts with 415
check_content_type(header) == header # JStr(JSON)

\* a create that takes the id of the new row from the body when it has one
post_BodyId(st, next, content_type, payload, now) ==
  LET d == deserialize(Fresh, payload, now)
      given == IF IsObj(payload) /\ HasKey(payload, "id")
               THEN payload.v["id"].v ELSE next
      row == Insert(d.attrs, given, now)
  IN IF check_content_type(content_type)
     THEN [store |-> st, nextId |-> next,
           resp |-> Abort("post", 0, HTTP_415_UNSUPPORTED_MEDIA_TYPE,
                          "Content-Type must be application/json")]
     ELSE IF d.error # ""
     THEN [store |-> st, nextId |-> next,
           resp |-> Abort("post", 0, DataValidationErrorStatus, d.error)]
     ELSE IF row = Invalid
     THEN [store |-> st, nextId |-> next,
           resp |-> Abort("post", 0, DataValidationErrorStatus, "DataError")]
     ELSE [store |-> [st EXCEPT ![next] = row], nextId |-> next + 1,
           resp |-> Response("post", given, HTTP_201_CREATED,
                             marshal(serialize(row)),
                             {<<"Location", given>>})]

post(st, next, content_type, payload, now) ==
  LET d == deserialize(Fresh, payload, now)
      row == Insert(d.attrs, next, now)
  IN IF check_content_type(content_type)
     THEN [store |-> st, nextId |-> next,
           resp |-> Abort("post", 0, HTTP_415_UNSUPPORTED_MEDIA_TYPE,
                          "Content-Type must be application/json")]
     ELSE IF d.error # ""
     THEN [store |-> st, nextId |-> next,
           resp |-> Abort("post", 0, DataValidationErrorStatus, d.error)]
     ELSE IF row = Invalid
     THEN [store |-> st, nextId |-> next,
           resp |-> Abort("post", 0, DataValidationErrorStatus, "DataError")]
     ELSE [store |-> [st EXCEPT ![next] = row], nextId |-> next + 1,
           resp |-> Response("post", next, HTTP_201_CREATED,
                             marshal(serialize(row)),
                             {<<"Location", next>>})]

ProductCollection_post(content_type, payload) ==
  LET r == post(store, nextId, content_type, payload, clock)
  IN /\ nextId \in DOMAIN store
     /\ store' = r.store
     /\ nextId' = r.nextId
     /\ resp' = Answered(r.resp, clock)
     /\ UNCHANGED <<clock, session>>

(***************************************************************************)
(* POST /products/{id}/discontinue                                         *)
(***************************************************************************)
NoJson == [t |-> "nojson"]

TruthyStrings ==
  {<<"t", "r", "u", "e">>, <<"y", "e", "s">>, <<"1">>, <<"y">>}

\* bool(x) of a JSON value
Truth(x) ==
  CASE x.t = "null" -> FALSE
    [] x.t = "bool" -> x.v
    [] x.t = "str" -> x.v # <<>>
    [] x.t = "num" -> \E i \in 1..Len(x.v) : IsDigit(x.v[i]) /\ x.v[i] # "0"
    [] x.t = "obj" -> DOMAIN x.v # {}
    [] OTHER -> TRUE

\* confirmation where any query argument at all counts as a confirmation
confirmed_AnyArg(confirm_arg, json) ==
  LET payload == IF json = NoJson \/ ~Truth(json) THEN JObj(<<>>) ELSE json
      confirm_payload ==
        IF json # NoJson /\ IsObj(payload)
        THEN Get(payload, "confirm", JNull)
        ELSE JNull
  IN IF confirm_arg # JNull
     THEN TRUE
     ELSE IF confirm_payload # JNull
     THEN CASE IsBool(confirm_payload) -> confirm_payload.v
            [] IsStr(confirm_payload) -> Lower(confirm_payload.v) \in TruthyStrings
            [] IsNum(confirm_payload) -> Truth(confirm_payload)
            [] OTHER -> FALSE
     ELSE FALSE

\* lines 362-378: the confirmation flag of the request
confirmed(confirm_arg, json) ==
  LET payload == IF json = NoJson \/ ~Truth(json) THEN JObj(<<>>) ELSE json
      confirm_payload ==
        IF json # NoJson /\ IsObj(payload)
        THEN Get(payload, "confirm", JNull)
        ELSE JNull
  IN IF confirm_arg # JNull
     THEN Lower(confirm_arg.v) \in TruthyStrings
     ELSE IF confirm_payload # JNull
     THEN CASE IsBool(confirm_payload) -> confirm_payload.v
            [] IsStr(confirm_payload) -> Lower(confirm_payload.v) \in TruthyStrings
            [] IsNum(confirm_payload) -> Truth(confirm_payload)
            [] OTHER -> FALSE
     ELSE FALSE

\* the assignment of discontinued alone, availability left as it was
Discontinued_FlagOnly(attrs) ==
  [attrs EXCEPT !["discontinued"] = JBool(TRUE)]

\* lines 393-394: the assignments of the handler to the loaded instance
Discontinued(attrs) ==
  [attrs EXCEPT !["discontinued"] = JBool(TRUE),
                !["availability"] = JBool(FALSE)]

\* a handler that looks the product up before it tests the confirmation
discontinue_LookupFirst(st, product_id, confirm_arg, json, now) ==
  LET product == find(st, product_id)
      row == Update(product, Discontinued(Loaded(product)), now)
  IN IF product = JNull \/ product.discontinued
     THEN [store |-> st,
           resp |-> Abort("discontinue", product_id, HTTP_404_NOT_FOUND,
                          "was not found")]
     ELSE IF ~confirmed(confirm_arg, json)
     THEN [store |-> st,
           resp |-> Abort("discontinue", product_id, HTTP_400_BAD_REQUEST,
                          "Discontinuing requires confirmation")]
     ELSE [store |-> [st EXCEPT ![product_id] = row],
           resp |-> Response("discontinue", product_id, HTTP_200_OK,
                             marshal(serialize(row)), {})]

discontinue(st, product_id, confirm_arg, json, now) ==
  LET product == find(st, product_id)
      row == Update(product, Discontinued(Loaded(product)), now)
  IN IF ~confirmed(confirm_arg, json)
     THEN [store |-> st,
           resp |-> Abort("discontinue", product_id, HTTP_400_BAD_REQUEST,
                          "Discontinuing requires confirmation")]
     ELSE IF product = JNull \/ product.discontinued
     THEN [store |-> st,
           resp |-> Abort("discontinue", product_id, HTTP_404_NOT_FOUND,
                          "was not found")]
     ELSE [store |-> [st EXCEPT ![product_id] = row],
           resp |-> Response("discontinue", product_id, HTTP_200_OK,
                             marshal(serialize(row)), {})]

DiscontinueProductResource_post(product_id, confirm_arg, json) ==
  LET r == discontinue(store, product_id, confirm_arg, json, clock)
  IN /\ store' = r.store
     /\ resp' = Answered(r.resp, clock)
     /\ UNCHANGED <<nextId, clock, session>>

(***************************************************************************)
(* PUT /products/{id}/favorite and /unfavorite                             *)
(***************************************************************************)
\* a handler that writes the flag whether or not it differs, stamping the row
SetFavorited_Always(product, value, now) ==
  [product EXCEPT !.favorited = value, !.updated_date = now]

\* the row the handler leaves: a write only when the flag differs
SetFavorited(product, value, now) ==
  IF product.favorited # value
  THEN Update(product, [Loaded(product) EXCEPT !["favorited"] = JBool(value)], now)
  ELSE product

\* favorite with only the lookup by id: a discontinued product is written too
favorite_IgnoresDiscontinued(st, op, product_id, value, now) ==
  LET product == find(st, product_id)
      row == SetFavorited(product, value, now)
  IN IF product = JNull
     THEN [store |-> st,
           resp |-> Abort(op, product_id, HTTP_404_NOT_FOUND, "was not found")]
     ELSE [store |-> [st EXCEPT ![product_id] = row],
           resp |-> Response(op, product_id, HTTP_200_OK,
                             marshal(serialize(row)), {})]

favorite(st, op, product_id, value, now) ==
  LET product == find(st, product_id)
      row == SetFavorited(product, value, now)
  IN IF product = JNull \/ product.discontinued
     THEN [store |-> st,
           resp |-> Abort(op, product_id, HTTP_404_NOT_FOUND, "was not found")]
     ELSE [store |-> [st EXCEPT ![product_id] = row],
           resp |-> Response(op, product_id, HTTP_200_OK,
                             marshal(serialize(row)), {})]

FavoriteProductResource_put(product_id) ==
  LET r == favorite(store, "favorite", product_id, TRUE, clock)
  IN /\ store' = r.store
     /\ resp' = Answered(r.resp, clock)
     /\ UNCHANGED <<nextId, clock, session>>

UnfavoriteProductResource_put(product_id) ==
  LET r == favorite(store, "unfavorite", product_id, FALSE, clock)
  IN /\ store' = r.store
     /\ resp' = Answered(r.resp, clock)
     /\ UNCHANGED <<nextId, clock, session>>

(***************************************************************************)
(* GET /products                                                           *)
(***************************************************************************)
\* the characters of the model in the order of their code points
CodePoints ==
  <<"%", "-", ".", "/", "0", "1", "2", "3", "4", "5", "6", "7", "8", "9",
    "A", "B", "C", "D", "E", "N", "O", "R", "S", "T", "U", "Y", "_",
    "a", "b", "c", "d", "e", "f", "l", "n", "o", "p", "r", "s", "t", "u",
    "x", "y">>
Ord(c) == CHOOSE i \in 1..Len(CodePoints) : CodePoints[i] = c

\* s < t for str
RECURSIVE StrLess(_, _)
StrLess(s, t) ==
  IF t = <<>> THEN FALSE
  ELSE IF s = <<>> THEN TRUE
  ELSE IF Head(s) # Head(t) THEN Ord(Head(s)) < Ord(Head(t))
  ELSE StrLess(Tail(s), Tail(t))

\* a key that keeps the case of the name
sort_key_Raw(p) == p.name

\* key=lambda p: (p.name or "").lower()
sort_key(p) == Lower(p.name)

\* sorted(products, key=sort_key): a stable sort
RECURSIVE sorted(_)
sorted(products) ==
  IF products = <<>> THEN <<>>
  ELSE LET n == Len(products)
           init == sorted(SubSeq(products, 1, n - 1))
           p == products[n]
           k == Cardinality({i \in 1..Len(init) :
                               ~StrLess(sort_key(p), sort_key(init[i]))})
       IN SubSeq(init, 1, k) \o <<p>> \o SubSeq(init, k + 1, Len(init))

\* a slice that takes one element more at its end
Slice_Closed(seq, start, end) ==
  LET lo == IF start < Len(seq) THEN start ELSE Len(seq)
      hi == IF end + 1 < Len(seq) THEN end + 1 ELSE Len(seq)
  IN SubSeq(seq, lo + 1, hi)

\* seq[start:end] for 0 <= start <= end
Slice(seq, start, end) ==
  LET lo == IF start < Len(seq) THEN start ELSE Len(seq)
      hi == IF end < Len(seq) THEN end ELSE Len(seq)
  IN SubSeq(seq, lo + 1, hi)

\* reqparse, type=int: int(value) of a query string
parse_int(x) ==
  LET neg == x.v # <<>> /\ Head(x.v) = "-"
      body == IF neg THEN Tail(x.v) ELSE x.v
      ok == body # <<>> /\ \A i \in 1..Len(body) : IsDigit(body[i])
  IN [valid |-> ok,
      v |-> IF ~ok THEN 0
            ELSE IF neg THEN 0 - DigitsValue(body) ELSE DigitsValue(body)]

\* reqparse, type=inputs.boolean, of a non-empty query string
inputs_boolean(x) ==
  LET s == Lower(x.v)
  IN [valid |-> s \in {<<"t", "r", "u", "e">>, <<"1">>, <<"o", "n">>,
                       <<"f", "a", "l", "s", "e">>, <<"0">>, <<"o", "f", "f">>},
      v |-> s \in {<<"t", "r", "u", "e">>, <<"1">>, <<"o", "n">>}]

\* the query string of a list request: each parameter a string, or JNull
\* when the request does not carry it
Args(category, name, availability, page, limit) ==
  [category |-> category, name |-> name, availability |-> availability,
   page |-> page, limit |-> limit]

\* product_args.parse_args() aborts with 400 on a value its type refuses
BadArgs(args) ==
  \/ args.availability # JNull /\ ~inputs_boolean(args.availability).valid
  \/ args.page # JNull /\ ~parse_int(args.page).valid
  \/ args.limit # JNull /\ ~parse_int(args.limit).valid

\* the rows of a query result in the order the database returns them:
\* order lists the ids of the table
Select(st, order, result) ==
  LET ids == SelectSeq(order, LAMBDA i : st[i] \in result)
  IN [i \in 1..Len(ids) |-> st[ids[i]]]

\* the query chosen with the name filter before the category filter
Filtered_NameFirst(st, args) ==
  IF args.name # JNull /\ args.name.v # <<>>
  THEN find_by_name(st, args.name.v)
  ELSE IF args.category # JNull /\ args.category.v # <<>>
  THEN find_by_category(st, args.category.v)
  ELSE IF args.availability # JNull
  THEN find_by_availability(st, inputs_boolean(args.availability).v)
  ELSE all(st)

\* lines 258-269: the one query the handler runs
Filtered(st, args) ==
  IF args.category # JNull /\ args.category.v # <<>>
  THEN find_by_category(st, args.category.v)
  ELSE IF args.name # JNull /\ args.name.v # <<>>
  THEN find_by_name(st, args.name.v)
  ELSE IF args.availability # JNull
  THEN find_by_availability(st, inputs_boolean(args.availability).v)
  ELSE all(st)

DefaultLimit == 100

\* pagination with page and limit taken as they come
Paginate_Raw(products, args) ==
  IF args.page # JNull /\ args.limit # JNull
  THEN LET page == parse_int(args.page).v
           limit == parse_int(args.limit).v
           start == IF page < 1 THEN 0 ELSE (page - 1) * limit
           end == IF start + limit < start THEN start ELSE start + limit
       IN Slice(products, start, end)
  ELSE products

\* pagination as soon as one of page and limit is supplied
Paginate_Either(products, args) ==
  IF args.page # JNull \/ args.limit # JNull
  THEN LET p == IF args.page = JNull THEN 1 ELSE parse_int(args.page).v
           l == IF args.limit = JNull THEN 0 ELSE parse_int(args.limit).v
           page == IF p < 1 THEN 1 ELSE p
           limit == IF l < 1 THEN DefaultLimit ELSE l
           start == (page - 1) * limit
       IN Slice(products, start, start + limit)
  ELSE products

\* lines 274-282: the slice of the sorted list
Paginate(products, args) ==
  IF args.page # JNull /\ args.limit # JNull
  THEN LET p == parse_int(args.page).v
           l == parse_int(args.limit).v
           page == IF p < 1 THEN 1 ELSE p
           limit == IF l < 1 THEN DefaultLimit ELSE l
           start == (page - 1) * limit
       IN Slice(products, start, start + limit)
  ELSE products

\* a JSON array
JArray(seq) == [t |-> "array", v |-> seq]

\* the products the handler returns, before they are serialized
listed(st, order, args) ==
  Paginate(sorted(Select(st, order, Filtered(st, args))), args)

list(st, order, args) ==
  IF BadArgs(args)
  THEN Abort("list", 0, HTTP_400_BAD_REQUEST, "Input payload validation failed")
  ELSE LET products == listed(st, order, args)
       IN Response("list", 0, HTTP_200_OK,
                   JArray([i \in 1..Len(products) |->
                             marshal(serialize(products[i]))]), {})

\* the orders in which the database may return the rows of the table
QueryOrders(st) ==
  LET ids == {i \in DOMAIN st : st[i] # JNull}
  IN {o \in [1..Cardinality(ids) -> ids] :
        \A i, j \in DOMAIN o : o[i] = o[j] => i = j}

\* the response to a list request, with the query string it answers
Asked(r, args) ==
  [op |-> r.op, id |-> r.id, status |-> r.status, body |-> r.body,
   headers |-> r.headers, at |-> r.at, args |-> args]

ProductCollection_get(args) ==
  /\ \E order \in QueryOrders(store) :
       resp' = Asked(Answered(list(store, order, args), clock), args)
  /\ UNCHANGED <<store, nextId, clock, session>>

(***************************************************************************)
(* Requests of the model                                                   *)
(***************************************************************************)
\* two complete product bodies
BodyA ==
  [name |-> JStr(<<"a">>), description |-> JStr(<<"d">>),
   price |-> JStr(<<"9", ".", "5">>), image_url |-> JStr(<<"u">>),
   category |-> JStr(<<"C">>)]
BodyB ==
  [name |-> JStr(<<"B">>), description |-> JNull,
   price |-> JNum(<<"1", "0">>), image_url |-> JStr(<<"u">>),
   category |-> JNull]

\* f with the keys of g added or replaced
Merge(f, g) ==
  [k \in DOMAIN f \cup DOMAIN g |-> IF k \in DOMAIN g THEN g[k] ELSE f[k]]
\* f without key k
Without(f, k) == [j \in DOMAIN f \ {k} |-> f[j]]

\* the flag keys a body may carry besides the required ones
FlagSets ==
  {<<>>}
  \cup {[availability |-> JBool(b)] : b \in BOOLEAN}
  \cup {[favorited |-> JBool(b)] : b \in BOOLEAN}
  \cup {[discontinued |-> JBool(b)] : b \in BOOLEAN}
  \cup {[availability |-> JBool(FALSE), favorited |-> JBool(TRUE)],
        [availability |-> JBool(TRUE), discontinued |-> JBool(TRUE),
         favorited |-> JBool(TRUE)]}

ValidBodies == {JObj(Merge(b, f)) : b \in {BodyA, BodyB}, f \in FlagSets}

\* bodies that lack required keys, or carry values no column takes
PartialBodies ==
  {JObj(Without(BodyA, RequiredKeys[i])) : i \in 1..Len(RequiredKeys)}
  \cup {JObj([name |-> JStr(<<"B">>)]),
        JObj([favorited |-> JBool(TRUE)]),
        JObj(<<>>)}
BadBodies ==
  {JObj(Merge(BodyA, [price |-> JStr(<<"x">>)])),
   JObj(Merge(BodyA, [availability |-> JStr(<<"n", "o">>)])),
   JNull, JList}

Payloads == ValidBodies \cup PartialBodies \cup BadBodies

TEXT == <<"t", "e", "x", "t">>
\* a request body with its Content-Type header
Contents ==
  {<<JStr(JSON), p>> : p \in Payloads}
  \cup {<<JStr(TEXT), JNull>>, <<JNull, JNull>>}

\* the confirm query parameter and the JSON body of a discontinue request
ConfirmArgs ==
  {JStr(<<"t", "r", "u", "e">>), JStr(<<"Y">>), JStr(<<"1">>),
   JStr(<<"f", "a", "l", "s", "e">>), JStr(<<>>)}
ConfirmValues ==
  {JBool(TRUE), JBool(FALSE), JStr(<<"Y", "E", "S">>), JStr(<<"n", "o">>),
   JNum(<<"1">>), JNum(<<"0">>), JNull, JList}
Confirmations ==
  {<<a, NoJson>> : a \in ConfirmArgs \cup {JNull}}
  \cup {<<JNull, j>> : j \in {JNull, JList, JObj(<<>>)}}
  \cup {<<JNull, JObj([confirm |-> x])>> : x \in ConfirmValues}
  \cup {<<JStr(<<"f", "a", "l", "s", "e">>), JObj([confirm |-> JBool(TRUE)])>>,
        <<JStr(<<"t", "r", "u", "e">>), JObj([confirm |-> JBool(FALSE)])>>}

Next ==
  \/ \E c \in Contents : ProductCollection_post(c[1], c[2])
  \/ \E id \in Ids : ProductResource_get(id)
  \/ \E id \in Ids, c \in Contents : ProductResource_put(id, c[1], c[2])
  \/ \E id \in Ids : ProductResource_delete(id)
  \/ \E id \in Ids, c \in Confirmations :
       DiscontinueProductResource_post(id, c[1], c[2])
  \/ \E id \in Ids : FavoriteProductResource_put(id)
  \/ \E id \in Ids : UnfavoriteProductResource_put(id)

Spec == Init /\ [][Next]_vars

(***************************************************************************)
(* The same handlers with the clock running, on few requests: one complete *)
(* body, one confirmation.                                                 *)
(***************************************************************************)
\* a body that carries the two timestamps, both of time 0
BodyDated ==
  Merge(BodyA, [created_date |-> JTime(0), updated_date |-> JTime(0)])

TimeBodies == {JObj(BodyA), JObj(BodyDated)}

NextTime ==
  \/ Tick
  \/ \E p \in TimeBodies : ProductCollection_post(JStr(JSON), p)
  \/ \E id \in Ids : ProductResource_get(id)
  \/ \E id \in Ids, p \in TimeBodies : ProductResource_put(id, JStr(JSON), p)
  \/ \E id \in Ids : ProductResource_delete(id)
  \/ \E id \in Ids :
       DiscontinueProductResource_post(id, JStr(<<"t", "r", "u", "e">>), NoJson)
  \/ \E id \in Ids : FavoriteProductResource_put(id)
  \/ \E id \in Ids : UnfavoriteProductResource_put(id)

SpecTime == Init /\ [][NextTime]_vars

(***************************************************************************)
(* The catalog: several products, created from three bodies, and the list  *)
(* requests over them.                                                     *)
(***************************************************************************)
\* names a, B and b; categories C and none; available and not
CatalogBodies ==
  {JObj(BodyA),
   JObj(Merge(BodyB, [availability |-> JBool(FALSE)])),
   JObj(Merge(BodyA, [name |-> JStr(<<"b">>)]))}

Q(s) == JStr(s)
TRUE_ == <<"t", "r", "u", "e">>
FALSE_ == <<"f", "a", "l", "s", "e">>

\* query strings of list requests
ListQueries ==
  {Args(JNull, JNull, JNull, JNull, JNull),
   Args(Q(<<"C">>), Q(<<"B">>), Q(FALSE_), JNull, JNull),
   Args(Q(<<>>), Q(<<"b">>), JNull, JNull, JNull),
   Args(JNull, Q(<<>>), Q(FALSE_), JNull, JNull),
   Args(JNull, JNull, Q(TRUE_), JNull, JNull),
   Args(JNull, JNull, Q(<<"y", "e", "s">>), JNull, JNull),
   Args(JNull, JNull, JNull, Q(<<"1">>), Q(<<"1">>)),
   Args(JNull, JNull, JNull, Q(<<"2">>), Q(<<"1">>)),
   Args(JNull, JNull, JNull, Q(<<"3">>), Q(<<"1">>)),
   Args(JNull, JNull, JNull, Q(<<"0">>), Q(<<"0">>)),
   Args(JNull, JNull, JNull, Q(<<"a", "b", "c">>), Q(<<"0">>)),
   Args(JNull, JNull, JNull, Q(<<"2">>), JNull),
   Args(JNull, Q(<<"b">>), JNull, Q(<<"2">>), Q(<<"1">>))}

CatalogIds == 1..MaxCatalog

InitCatalog ==
  /\ store = [i \in CatalogIds |-> JNull]
  /\ nextId = 1
  /\ clock = 0
  /\ resp = Answered(Response("", 0, 0, JNull, {}), 0)
  /\ session = [w \in Workers |-> Idle]

NextCatalog ==
  \/ \E p \in CatalogBodies : ProductCollection_post(JStr(JSON), p)
  \/ \E id \in CatalogIds : ProductResource_delete(id)
  \/ \E id \in CatalogIds : DiscontinueProductResource_post(id, JStr(TRUE_), NoJson)
  \/ \E q \in ListQueries : ProductCollection_get(q)

SpecCatalog == InitCatalog /\ [][NextCatalog]_vars

(***************************************************************************)
(* The handlers that write products, on a table of several rows and on     *)
(* bodies that carry an id, an empty name or a negative price.             *)
(***************************************************************************)
\* the body with an id key added
WithId(body, n) == JObj(Merge(body, [id |-> JInt(n)]))

BodyNamedB == Merge(BodyA, [name |-> JStr(<<"b">>)])
BodyNoName == Merge(BodyA, [name |-> JStr(<<>>)])
BodyNegative == Merge(BodyA, [price |-> JStr(<<"-", "1">>)])

IdentBodies ==
  {WithId(BodyNamedB, 1), JObj(BodyNoName), JObj(BodyNegative)}

NextIdent ==
  \/ \E p \in IdentBodies : ProductCollection_post(JStr(JSON), p)
  \/ \E id \in CatalogIds, p \in IdentBodies :
       ProductResource_put(id, JStr(JSON), p)
  \/ \E id \in CatalogIds : ProductResource_delete(id)
  \/ \E id \in CatalogIds :
       DiscontinueProductResource_post(id, JStr(TRUE_), NoJson)
  \/ \E id \in CatalogIds : FavoriteProductResource_put(id)
  \/ \E id \in CatalogIds : UnfavoriteProductResource_put(id)

SpecIdent == InitCatalog /\ [][NextIdent]_vars

(***************************************************************************)
(* Requests in progress.  A handler that writes runs in two steps: up to   *)
(* its call of create(), update() or delete() it reads the committed rows  *)
(* and assigns attributes of an instance in its own session; the call      *)
(* flushes the session and commits, or fails and rolls back.  Between the  *)
(* two steps other requests may commit.                                    *)
(***************************************************************************)
\* the request has loaded the row `loaded` (JNull for a new instance) and
\* left the attributes `attrs` on the instance
Pending(op, id, loaded, attrs) ==
  [pc |-> "commit", op |-> op, id |-> id, loaded |-> loaded, attrs |-> attrs]

\* the UPDATE matched no row
Stale == [t |-> "stale"]

\* flush of a loaded instance: UPDATE ... SET the attributes that differ
\* from the loaded values WHERE id = the id of the instance.  The statement
\* acts on the row as it is committed when it runs, cur; the columns it does
\* not set keep the values of cur.  No statement when nothing differs.
Flush(cur, loaded, attrs, now) ==
  LET was == Loaded(loaded)
      changed == {c \in Columns : attrs[c] # was[c]}
      ok == \A c \in changed : Storable(c, attrs[c])
      val(c) == IF c \in changed THEN Stored(c, attrs[c])
                ELSE IF c = "updated_date" THEN now
                ELSE cur[c]
  IN IF changed = {} THEN cur
     ELSE IF ~ok THEN Invalid
     ELSE IF cur = JNull THEN Stale
     ELSE [c \in Columns \cup {"id"} |-> IF c = "id" THEN cur.id ELSE val(c)]

\* the status of an exception no handler is registered for
ServerErrorStatus == 500

\* a rollback that keeps what the session had flushed
rollback_Keep(st, flushed) == flushed

\* db.session.rollback(): the rows as they were committed
rollback(st, flushed) == st

\* db.session.commit() of the request s, and the answer of its handler
commit(st, next, s, now) ==
  CASE s.op = "post" ->
         LET row == Insert(s.attrs, next, now)
         IN IF row = Invalid
            THEN [store |-> st, nextId |-> next,
                  resp |-> Abort("post", 0, DataValidationErrorStatus, "DataError")]
            ELSE [store |-> [st EXCEPT ![next] = row], nextId |-> next + 1,
                  resp |-> Response("post", next, HTTP_201_CREATED,
                                    marshal(serialize(row)),
                                    {<<"Location", next>>})]
    [] s.op = "delete" ->
         [store |-> IF find(st, s.id) # JNull
                    THEN [st EXCEPT ![s.id] = JNull] ELSE st,
          nextId |-> next,
          resp |-> Response("delete", s.id, HTTP_204_NO_CONTENT, JNull, {})]
    [] OTHER ->
         LET row == Flush(find(st, s.id), s.loaded, s.attrs, now)
         IN IF row = Invalid
            THEN [store |-> st, nextId |-> next,
                  resp |-> Abort(s.op, s.id, DataValidationErrorStatus, "DataError")]
            ELSE IF row = Stale
            THEN [store |-> st, nextId |-> next,
                  resp |-> Abort(s.op, s.id, DataValidationErrorStatus,
                                 "StaleDataError")]
            ELSE IF row = JNull
            THEN [store |-> st, nextId |-> next,
                  resp |-> Abort(s.op, s.id, ServerErrorStatus,
                                 "ObjectDeletedError")]
            ELSE [store |-> [st EXCEPT ![s.id] = row], nextId |-> next,
                  resp |-> Response(s.op, s.id, HTTP_200_OK,
                                    marshal(serialize(row)), {})]

\* the except branch of create(), update(), delete(): rollback, then
\* DataValidationError
commit_fails(st, next, s, now) ==
  [store |-> rollback(st, commit(st, next, s, now).store),
   resp |-> Abort(s.op, s.id, DataValidationErrorStatus, "commit failed")]

ProductCollection_post_deserialize(w, payload) ==
  LET d == deserialize(Fresh, payload, clock)
  IN /\ session[w] = Idle
     /\ nextId \in DOMAIN store
     /\ IF d.error # ""
        THEN /\ resp' = Answered(post(store, nextId, JStr(JSON), payload, clock).resp,
                                 clock)
             /\ UNCHANGED session
        ELSE /\ session' = [session EXCEPT ![w] = Pending("post", 0, JNull, d.attrs)]
             /\ UNCHANGED resp
     /\ UNCHANGED <<store, nextId, clock>>

ProductResource_put_find(w, product_id, payload) ==
  LET product == find(store, product_id)
      d == deserialize(Loaded(product), payload, clock)
  IN /\ session[w] = Idle
     /\ IF product = JNull \/ product.discontinued \/ d.error # ""
        THEN /\ resp' = Answered(put(store, product_id, JStr(JSON), payload,
                                     clock).resp, clock)
             /\ UNCHANGED session
        ELSE /\ session' = [session EXCEPT
                              ![w] = Pending("put", product_id, product, d.attrs)]
             /\ UNCHANGED resp
     /\ UNCHANGED <<store, nextId, clock>>

ProductResource_delete_find(w, product_id) ==
  LET product == find(store, product_id)
  IN /\ session[w] = Idle
     /\ IF product = JNull
        THEN /\ resp' = Answered(delete(store, product_id).resp, clock)
             /\ UNCHANGED session
        ELSE /\ session' = [session EXCEPT
                              ![w] = Pending("delete", product_id, product,
                                             Loaded(product))]
             /\ UNCHANGED resp
     /\ UNCHANGED <<store, nextId, clock>>

DiscontinueProductResource_post_find(w, product_id) ==
  LET product == find(store, product_id)
  IN /\ session[w] = Idle
     /\ IF product = JNull \/ product.discontinued
        THEN /\ resp' = Answered(discontinue(store, product_id, JStr(TRUE_), NoJson,
                                             clock).resp, clock)
             /\ UNCHANGED session
        ELSE /\ session' = [session EXCEPT
                              ![w] = Pending("discontinue", product_id, product,
                                             Discontinued(Loaded(product)))]
             /\ UNCHANGED resp
     /\ UNCHANGED <<store, nextId, clock>>

\* favorite (value TRUE) and unfavorite (value FALSE) up to product.update()
FavoriteProductResource_put_find(w, op, product_id, value) ==
  LET product == find(store, product_id)
  IN /\ session[w] = Idle
     /\ IF product = JNull \/ product.discontinued \/ product.favorited = value
        THEN /\ resp' = Answered(favorite(store, op, product_id, value, clock).resp,
                                 clock)
             /\ UNCHANGED session
        ELSE /\ session' = [session EXCEPT
                              ![w] = Pending(op, product_id, product,
                                             [Loaded(product) EXCEPT
                                                !["favorited"] = JBool(value)])]
             /\ UNCHANGED resp
     /\ UNCHANGED <<store, nextId, clock>>

\* the commit of the request of w succeeds
Commit(w) ==
  /\ session[w] # Idle
  /\ session[w].op = "post" => nextId \in DOMAIN store
  /\ LET r == commit(store, nextId, session[w], clock)
     IN /\ store' = r.store
        /\ nextId' = r.nextId
        /\ resp' = Answered(r.resp, clock)
  /\ session' = [session EXCEPT ![w] = Idle]
  /\ UNCHANGED clock

\* the commit of the request of w raises.  The id sequence of the table is
\* not rolled back: a failed create may have drawn its value.
CommitFails(w) ==
  /\ session[w] # Idle
  /\ session[w].op = "post" => nextId \in DOMAIN store
  /\ LET r == commit_fails(store, nextId, session[w], clock)
     IN /\ store' = r.store
        /\ resp' = Answered(r.resp, clock)
  /\ \E drawn \in BOOLEAN :
       nextId' = IF drawn /\ session[w].op = "post" THEN nextId + 1 ELSE nextId
  /\ session' = [session EXCEPT ![w] = Idle]
  /\ UNCHANGED clock

\* the bodies of the updates in progress
TxBodies == {JObj(BodyA), JObj(BodyNamedB)}

NextTx ==
  \/ \E w \in Workers : ProductCollection_post_deserialize(w, JObj(BodyA))
  \/ \E w \in Workers, id \in Ids, p \in TxBodies :
       ProductResource_put_find(w, id, p)
  \/ \E w \in Workers, id \in Ids : ProductResource_delete_find(w, id)
  \/ \E w \in Workers, id \in Ids : DiscontinueProductResource_post_find(w, id)
  \/ \E w \in Workers, id \in Ids :
       FavoriteProductResource_put_find(w, "favorite", id, TRUE)
  \/ \E w \in Workers, id \in Ids :
       FavoriteProductResource_put_find(w, "unfavorite", id, FALSE)
  \/ \E w \in Workers : Commit(w)
  \/ \E w \in Workers : CommitFails(w)

SpecTx == Init /\ [][NextTx]_vars

\* the same steps with one request in progress at a time
NextFail ==
  \/ ProductCollection_post_deserialize("w1", JObj(BodyA))
  \/ \E id \in Ids, p \in TxBodies : ProductResource_put_find("w1", id, p)
  \/ \E id \in Ids : ProductResource_delete_find("w1", id)
  \/ \E id \in Ids : DiscontinueProductResource_post_find("w1", id)
  \/ \E id \in Ids : FavoriteProductResource_put_find("w1", "favorite", id, TRUE)
  \/ \E id \in Ids : FavoriteProductResource_put_find("w1", "unfavorite", id, FALSE)
  \/ Commit("w1")
  \/ CommitFails("w1")

SpecFail == Init /\ [][NextFail]_vars

(***************************************************************************)
(* Vocabulary of the properties                                            *)
(***************************************************************************)
\* the product with this id exists and is not discontinued
Active(st, id) == find(st, id) # JNull /\ ~find(st, id).discontinued

\* arguments of the name and category queries
SearchStrings ==
  {<<>>, <<"a">>, <<"A">>, <<"b">>, <<"c">>, <<"C">>, <<"%">>, <<"_">>,
   <<"a", "b">>}

\* a confirm value that reads as yes: true, 1, or true / yes / 1 / y in any case
TruthyValue(x) ==
  \/ x = JBool(TRUE)
  \/ x = JNum(<<"1">>)
  \/ IsStr(x) /\ Lower(x.v) \in TruthyStrings

\* the confirm values a discontinue request supplies
Supplied(c) ==
  (IF c[1] # JNull THEN {c[1]} ELSE {})
  \cup (IF HasKey(c[2], "confirm") /\ c[2].v["confirm"] # JNull
        THEN {c[2].v["confirm"]} ELSE {})

\* requests without a confirm value, or with falsy ones only
Unconfirmed == {c \in Confirmations : \A x \in Supplied(c) : ~TruthyValue(x)}
\* requests whose confirm values are all truthy
Truthy ==
  {c \in Confirmations : Supplied(c) # {} /\ \A x \in Supplied(c) : TruthyValue(x)}

(***************************************************************************)
(* C1 *)
(***************************************************************************)
\* C1: a discontinued product is in the result of none of all(),
\* find_by_name(s), find_by_category(s), find_by_availability(b), whatever
\* s and b, and GET on its id answers 404.
C1_DiscontinuedExcluded ==
  \A r \in Rows(store) :
    r.discontinued =>
      /\ r \notin all(store)
      /\ \A s \in SearchStrings :
           r \notin find_by_name(store, s) /\ r \notin find_by_category(store, s)
      /\ \A b \in BOOLEAN : r \notin find_by_availability(store, b)
      /\ get(store, r.id).status = HTTP_404_NOT_FOUND

\* a GET has just answered 404 for a product that is stored, discontinued,
\* and whose name the pattern of a name query matches
C1_Witness ==
  /\ resp.op = "get"
  /\ resp.status = HTTP_404_NOT_FOUND
  /\ find(store, resp.id) # JNull
  /\ find(store, resp.id).discontinued
  /\ ILike(JStr(find(store, resp.id).name), <<"%", "a", "%">>)

(***************************************************************************)
(* C2 *)
(***************************************************************************)
\* C2: discontinue of an active product without a confirm value, or with a
\* falsy one, answers 400 and changes no field of any stored product; a GET
\* of the product after it answers 200.
C2_ConfirmationGate ==
  \A id \in Ids : \A c \in Unconfirmed :
    Active(store, id) =>
      LET r == discontinue(store, id, c[1], c[2], clock)
      IN /\ r.resp.status = HTTP_400_BAD_REQUEST
         /\ r.store = store
         /\ get(r.store, id).status = HTTP_200_OK

\* a discontinue request was refused with 400 and its product is still active
C2_Witness ==
  /\ resp.op = "discontinue"
  /\ resp.status = HTTP_400_BAD_REQUEST
  /\ Active(store, resp.id)

(***************************************************************************)
(* C3 *)
(***************************************************************************)
\* C3: discontinue of an active product with a truthy confirmation answers
\* 200 and leaves the product stored with discontinued = true and
\* availability = false, whatever its availability was.
C3_DiscontinueSetsFlags ==
  \A id \in Ids : \A c \in Truthy :
    Active(store, id) =>
      LET r == discontinue(store, id, c[1], c[2], clock)
      IN /\ r.resp.status = HTTP_200_OK
         /\ find(r.store, id) # JNull
         /\ find(r.store, id).discontinued = TRUE
         /\ find(r.store, id).availability = FALSE
         /\ r.resp.body.v["discontinued"] = JBool(TRUE)
         /\ r.resp.body.v["availability"] = JBool(FALSE)

\* a discontinue request has just answered 200
C3_Witness ==
  /\ resp.op = "discontinue"
  /\ resp.status = HTTP_200_OK
  /\ find(store, resp.id).discontinued
  /\ ~find(store, resp.id).availability

(***************************************************************************)
(* C4 *)
(***************************************************************************)
\* C4: no request takes the discontinued flag of a stored product from true
\* back to false: a discontinued product stays discontinued while it is
\* stored.
C4_DiscontinuedOneWay ==
  [][\A id \in Ids :
       (/\ store[id] # JNull
        /\ store[id].discontinued
        /\ store'[id] # JNull) => store'[id].discontinued]_vars

\* an update has just been refused for a product that is stored and
\* discontinued, and the product is discontinued still
C4_Witness ==
  /\ resp.op = "put"
  /\ resp.status = HTTP_404_NOT_FOUND
  /\ find(store, resp.id) # JNull
  /\ find(store, resp.id).discontinued

(***************************************************************************)
(* C5 *)
(***************************************************************************)
\* C5: an update that answers 200 leaves the discontinued and favorited
\* flags of the product as they were, whatever the body.
C5_UpdateKeepsFlags ==
  [][\A id \in Ids :
       (/\ resp'.op = "put"
        /\ resp'.id = id
        /\ resp'.status = HTTP_200_OK
        /\ Active(store, id)) =>
          /\ store'[id].discontinued = store[id].discontinued
          /\ store'[id].favorited = store[id].favorited]_vars

(***************************************************************************)
(* C6 *)
(***************************************************************************)
\* the value the row holds for a key, as the JSON value a body gives it
FieldOf(row, k) == IF k \in Dates THEN JTime(row[k]) ELSE serialize(row).v[k]

\* C6: an update of an active product with a body holding any subset of the
\* product fields answers 200; every key of the body takes the value of the
\* body and every other field keeps its value.
C6_PartialUpdate ==
  [][\A id \in Ids : \A p \in ValidBodies \cup PartialBodies :
       (Active(store, id) /\ ProductResource_put(id, JStr(JSON), p)) =>
          /\ resp'.status = HTTP_200_OK
          /\ \A k \in Columns \ {"price", "updated_date"} :
               FieldOf(store'[id], k) =
                 IF k \in DOMAIN p.v THEN p.v[k] ELSE FieldOf(store[id], k)]_vars

(***************************************************************************)
(* C7 *)
(***************************************************************************)
\* C7: update, favorite, unfavorite and confirmed discontinue answer 404 for
\* an id that is not stored or whose product is discontinued, and leave the
\* store as it is.
C7_NotFoundLeavesStore ==
  \A id \in Ids :
    ~Active(store, id) =>
      /\ \A c \in Contents :
           LET r == put(store, id, c[1], c[2], clock)
           IN r.resp.status = HTTP_404_NOT_FOUND /\ r.store = store
      /\ \A v \in BOOLEAN :
           LET r == favorite(store, "favorite", id, v, clock)
           IN r.resp.status = HTTP_404_NOT_FOUND /\ r.store = store
      /\ \A c \in Truthy :
           LET r == discontinue(store, id, c[1], c[2], clock)
           IN r.resp.status = HTTP_404_NOT_FOUND /\ r.store = store

\* a request on a stored, discontinued product has just answered 404
C7_Witness ==
  /\ resp.op \in {"put", "favorite", "unfavorite", "discontinue"}
  /\ resp.status = HTTP_404_NOT_FOUND
  /\ find(store, resp.id) # JNull
  /\ find(store, resp.id).discontinued

(***************************************************************************)
(* C8 *)
(***************************************************************************)
\* C8: DELETE answers 204 for every id; after it no product has the id
\* (find gives nothing, GET answers 404), the other products are as before,
\* and a second DELETE answers 204 and changes nothing.
C8_DeleteIdempotent ==
  \A id \in Ids :
    LET r1 == delete(store, id)
        r2 == delete(r1.store, id)
    IN /\ r1.resp.status = HTTP_204_NO_CONTENT
       /\ find(r1.store, id) = JNull
       /\ get(r1.store, id).status = HTTP_404_NOT_FOUND
       /\ \A j \in Ids \ {id} : r1.store[j] = store[j]
       /\ r2.resp.status = HTTP_204_NO_CONTENT
       /\ r2.store = r1.store

\* a DELETE has just answered 204 for an id that had been handed out, and
\* the id is not stored
C8_Witness ==
  /\ resp.op = "delete"
  /\ resp.status = HTTP_204_NO_CONTENT
  /\ resp.id < nextId
  /\ find(store, resp.id) = JNull

(***************************************************************************)
(* C9 *)
(***************************************************************************)
\* C9: favorite and unfavorite of an active product answer 200 and leave the
\* favorited flag true, respectively false, whatever it was; when the flag
\* already had that value the request changes nothing in the store
\* (updated_date included).
C9_FavoriteIdempotent ==
  [][\A id \in Ids :
       (/\ resp'.op \in {"favorite", "unfavorite"}
        /\ resp'.id = id
        /\ Active(store, id)) =>
          LET value == (resp'.op = "favorite")
          IN /\ resp'.status = HTTP_200_OK
             /\ resp'.body.v["favorited"] = JBool(value)
             /\ store'[id].favorited = value
             /\ store[id].favorited = value => store' = store]_vars

\* a favorite request has been answered 200 at a time later than the last
\* write of its product, which is favorited: the product was already
\* favorited when the request came and the request wrote nothing
C9_Witness ==
  /\ resp.op = "favorite"
  /\ resp.status = HTTP_200_OK
  /\ find(store, resp.id) # JNull
  /\ find(store, resp.id).favorited
  /\ find(store, resp.id).updated_date < resp.at

(***************************************************************************)
(* C10 *)
(***************************************************************************)
\* the value a create request gives a field: the value of the body, or the
\* default of create
Requested(p, k) ==
  IF k \in DOMAIN p.v THEN p.v[k] ELSE JBool(TRUE)

\* C10: a create that answers 201 carries the created record and a Location
\* header of the new id, and a GET of that id directly afterwards answers
\* 200 with the name, description, price, image_url, category and
\* availability of the request body.
C10_CreateThenGet ==
  [][\A p \in ValidBodies :
       (ProductCollection_post(JStr(JSON), p) /\ resp'.status = HTTP_201_CREATED) =>
          LET g == get(store', resp'.id)
          IN /\ resp'.headers = {<<"Location", resp'.id>>}
             /\ g.status = HTTP_200_OK
             /\ \A k \in {"name", "description", "price", "image_url",
                          "category", "availability"} :
                  /\ k \in DOMAIN g.body.v
                  /\ g.body.v[k] = Requested(p, k)]_vars

(***************************************************************************)
(* C11 *)
(***************************************************************************)
\* C11: a create that answers 201 leaves the new product stored with
\* discontinued = false, whatever keys the body carries; GET of its id
\* answers 200 and the product is among all().
C11_CreateIsActive ==
  [][(resp'.op = "post" /\ resp'.status = HTTP_201_CREATED) =>
        /\ find(store', resp'.id) # JNull
        /\ ~find(store', resp'.id).discontinued
        /\ get(store', resp'.id).status = HTTP_200_OK
        /\ find(store', resp'.id) \in all(store')]_vars

(***************************************************************************)
(* C12 *)
(***************************************************************************)
\* the ids of the stored products
StoredIds(st) == {r.id : r \in Rows(st)}

\* the ids a body may carry: those of the table, and one outside it
BodyIds == CatalogIds \cup {0}

\* C12: ids are assigned by the server, unique and immutable.  No two stored
\* products have the same id.  A create answers as it does without the id
\* key of its body, and the product it adds has an id that no stored product
\* has, the one of the Location header.  An update answers as it does
\* without the id key of its body; update, favorite, unfavorite and
\* discontinue leave the id of the product and the set of stored ids as they
\* were.
C12_ServerAssignedIds ==
  /\ \A i, j \in DOMAIN store :
       (i # j /\ store[i] # JNull /\ store[j] # JNull) => store[i].id # store[j].id
  /\ \A i \in DOMAIN store : store[i] # JNull => find(store, store[i].id) = store[i]
  /\ \A body \in {BodyA, BodyNamedB}, n \in BodyIds :
       /\ nextId \in DOMAIN store =>
            \A r \in {post(store, nextId, JStr(JSON), WithId(body, n), clock)} :
              /\ r = post(store, nextId, JStr(JSON), JObj(body), clock)
              /\ r.resp.status = HTTP_201_CREATED
              /\ r.resp.id \notin StoredIds(store)
              /\ r.resp.body.v["id"] = JInt(r.resp.id)
              /\ StoredIds(r.store) = StoredIds(store) \cup {r.resp.id}
              /\ find(r.store, r.resp.id).id = r.resp.id
              /\ \A i \in StoredIds(store) : find(r.store, i) = find(store, i)
       /\ \A id \in CatalogIds :
            Active(store, id) =>
              \A r \in {put(store, id, JStr(JSON), WithId(body, n), clock)} :
                /\ r = put(store, id, JStr(JSON), JObj(body), clock)
                /\ r.resp.status = HTTP_200_OK
                /\ r.resp.body.v["id"] = JInt(id)
                /\ find(r.store, id).id = id
                /\ StoredIds(r.store) = StoredIds(store)
  /\ \A id \in CatalogIds :
       Active(store, id) =>
         \A st \in {favorite(store, "favorite", id, TRUE, clock).store,
                    favorite(store, "unfavorite", id, FALSE, clock).store,
                    discontinue(store, id, JStr(TRUE_), NoJson, clock).store} :
           /\ find(st, id).id = id
           /\ StoredIds(st) = StoredIds(store)

\* a create whose body carries the id of a stored product has been answered
\* 201 with another id, and both products are stored
C12_Witness ==
  /\ resp.op = "post"
  /\ resp.status = HTTP_201_CREATED
  /\ resp.id = 2
  /\ store[1] # JNull
  /\ store[2] # JNull
  /\ store[2].name = <<"b">>
  /\ store[2].id = 2

(***************************************************************************)
(* C13 *)
(***************************************************************************)
\* Content-Type headers other than application/json: another type, no header
NotJson == {JStr(TEXT), JNull}
\* bodies sent under such a header
NotJsonPayloads == {JNull, JObj(<<>>), JObj(BodyA), JObj(BodyB)}

BadValueBodies ==
  {JObj(Merge(BodyA, [price |-> JStr(<<"x">>)])),
   JObj(Merge(BodyA, [availability |-> JStr(<<"n", "o">>)]))}

\* C14: a create whose body lacks a required key, and a create or an update
\* of an active product whose body has a non-numeric price or a non-boolean
\* availability, answer 400; no product is added or changed and no id is
\* handed out.
C14_ValidationFailure ==
  /\ \A p \in PartialBodies \cup BadValueBodies :
       LET r == post(store, nextId, JStr(JSON), p, clock)
       IN /\ r.resp.status = HTTP_400_BAD_REQUEST
          /\ r.store = store
          /\ r.nextId = nextId
  /\ \A id \in Ids : \A p \in BadValueBodies :
       Active(store, id) =>
         LET r == put(store, id, JStr(JSON), p, clock)
         IN /\ r.resp.status = HTTP_400_BAD_REQUEST
            /\ r.store = store

\* an update of a stored, active product has just been refused with 400
\* because the database did not take a value of the body
C14_Witness ==
  /\ resp.op = "put"
  /\ resp.status = HTTP_400_BAD_REQUEST
  /\ resp.body = ErrorBody("DataError")
  /\ Active(store, resp.id)

(***************************************************************************)
(* C15 *)
(***************************************************************************)
\* C15: every stored product has a name that is not empty and a price that
\* is not negative.
C15_NameAndPrice ==
  \A r \in Rows(store) : r.name # <<>> /\ r.price >= 0

(***************************************************************************)
(* C16 *)
(***************************************************************************)
\* the ids of the products a list response carries
IdsOf(body) == {body.v[i].v["id"].v : i \in 1..Len(body.v)}

\* list requests with every combination of the three filters, no paging
FilterQueries ==
  {Args(c, n, a, JNull, JNull) :
     c \in {JNull, Q(<<>>), Q(<<"c">>)},
     n \in {JNull, Q(<<>>), Q(<<"b">>)},
     a \in {JNull, Q(FALSE_)}}

\* a filter value that is supplied and is not the empty string
Given(x) == x # JNull /\ x.v # <<>>

\* C16 (amended): GET /products applies exactly one filter: with a
\* non-empty category the result is find_by_category, whatever name and
\* availability are; otherwise with a non-empty name it is find_by_name,
\* whatever availability is; otherwise with an availability it is
\* find_by_availability; otherwise it is all non-discontinued products.
C16_FilterPrecedence ==
  \A q \in FilterQueries : \A order \in QueryOrders(store) :
    LET r == list(store, order, q)
        expected ==
          IF Given(q.category) THEN find_by_category(store, q.category.v)
          ELSE IF Given(q.name) THEN find_by_name(store, q.name.v)
          ELSE IF q.availability # JNull
          THEN find_by_availability(store, q.availability.v = TRUE_)
          ELSE all(store)
    IN /\ r.status = HTTP_200_OK
       /\ Len(r.body.v) = Cardinality(expected)
       /\ IdsOf(r.body) = {p.id : p \in expected}

\* a list request with a category, a name and an availability has been
\* answered with a product that the category matches and that neither the
\* name nor the availability of the request matches
C16_Witness ==
  /\ resp.op = "list"
  /\ resp.status = HTTP_200_OK
  /\ resp.args.category = Q(<<"C">>)
  /\ resp.args.name = Q(<<"B">>)
  /\ resp.args.availability = Q(FALSE_)
  /\ \E i \in 1..Len(resp.body.v) :
       /\ resp.body.v[i].v["name"] = JStr(<<"a">>)
       /\ resp.body.v[i].v["availability"] = JBool(TRUE)

\* C16 as stated: the filter is chosen by which parameters the request
\* carries: category when it carries one, otherwise name when it carries
\* one, otherwise availability, otherwise none.
C16_SuppliedFilterPrecedence ==
  [][(/\ resp'.op = "list"
      /\ resp'.status = HTTP_200_OK
      /\ resp'.args.page = JNull
      /\ resp'.args.limit = JNull) =>
        LET q == resp'.args
            expected ==
              IF q.category # JNull THEN find_by_category(store, q.category.v)
              ELSE IF q.name # JNull THEN find_by_name(store, q.name.v)
              ELSE IF q.availability # JNull
              THEN find_by_availability(store, q.availability.v = TRUE_)
              ELSE all(store)
        IN IdsOf(resp'.body) = {p.id : p \in expected}]_vars

(***************************************************************************)
(* C17 *)
(***************************************************************************)
\* the names of the products a list response carries, in its order
NamesOf(body) == [i \in 1..Len(body.v) |-> body.v[i].v["name"].v]

\* names in ascending order of their lower-cased form
Ascending(names) ==
  \A i, j \in 1..Len(names) :
    i < j => ~StrLess(Lower(names[j]), Lower(names[i]))

\* the request without its page and limit
Unpaged(q) == [q EXCEPT !.page = JNull, !.limit = JNull]

\* the request asks for the first page: page and limit are numbers, page
\* below 2
FirstPage(q) ==
  /\ q.page # JNull /\ q.limit # JNull
  /\ parse_int(q.page).valid /\ parse_int(q.limit).valid
  /\ parse_int(q.page).v < 2

\* C17: every list response that answers 200 carries its products in
\* ascending order of their lower-cased names, whatever the filter, page
\* and limit and whatever order the database returns the rows in; a first
\* page is the beginning of the sorted list of the whole result.
C17_SortedByLowerName ==
  \A q \in ListQueries : \A order \in QueryOrders(store) :
    \A r \in {list(store, order, q)} :
      r.status = HTTP_200_OK =>
        /\ Ascending(NamesOf(r.body))
        /\ FirstPage(q) =>
             \A full \in {list(store, order, Unpaged(q))} :
               /\ Ascending(NamesOf(full.body))
               /\ r.body.v = SubSeq(full.body.v, 1, Len(r.body.v))

\* a list response carries a before B, where two products are visible of
\* which B was created first
C17_Witness ==
  /\ resp.op = "list"
  /\ resp.status = HTTP_200_OK
  /\ Len(resp.body.v) = 2
  /\ resp.body.v[1].v["name"] = JStr(<<"a">>)
  /\ resp.body.v[2].v["name"] = JStr(<<"B">>)
  /\ resp.body.v[2].v["id"].v < resp.body.v[1].v["id"].v

(***************************************************************************)
(* C18 *)
(***************************************************************************)
\* the request with page p and limit l
Paged(q, p, l) ==
  [q EXCEPT !.page = Q(NatToDigits(p)), !.limit = Q(NatToDigits(l))]

\* the requests whose pages are examined: no filter, a name filter
PagedQueries ==
  {Args(JNull, JNull, JNull, JNull, JNull),
   Args(JNull, Q(<<"b">>), JNull, JNull, JNull)}

Min(a, b) == IF a < b THEN a ELSE b

\* C18: on an unchanged store, with the rows returned in the same order,
\* the pages 1, 2, ... of a limit L >= 1 answer 200 and are the
\* consecutive slices [(page-1)*L, page*L) of the sorted result: no product
\* is on two pages, the pages together hold every product of the result,
\* and a page beyond the last product is the empty list.
C18_PagesPartition ==
  \A q \in PagedQueries : \A order \in QueryOrders(store) :
    \A L \in 1..MaxLimit :
      \A full \in {list(store, order, q).body.v} :
        \A page \in {[p \in 1..MaxPage |-> list(store, order, Paged(q, p, L))]} :
          \A ids \in {[p \in 1..MaxPage |-> IdsOf(page[p].body)]} :
            /\ \A p \in 1..MaxPage :
                 /\ page[p].status = HTTP_200_OK
                 /\ page[p].body.v =
                      SubSeq(full, (p - 1) * L + 1, Min(p * L, Len(full)))
                 /\ (p - 1) * L >= Len(full) => page[p].body.v = <<>>
            /\ \A p1, p2 \in 1..MaxPage :
                 p1 # p2 => ids[p1] \cap ids[p2] = {}
            /\ MaxPage * L >= Len(full) =>
                 UNION {ids[p] : p \in 1..MaxPage} = IdsOf([v |-> full])

\* page 3 of limit 1 has been answered 200 with the empty list while
\* products are visible
C18_Witness ==
  /\ resp.op = "list"
  /\ resp.status = HTTP_200_OK
  /\ resp.args.page = Q(<<"3">>)
  /\ resp.args.limit = Q(<<"1">>)
  /\ resp.body.v = <<>>
  /\ all(store) # {}

(***************************************************************************)
(* C19 *)
(***************************************************************************)
\* page and limit values below 1
BelowOne == {Q(<<"0">>), Q(<<"-", "1">>)}

C20_NonNumericPaging ==
  [][(/\ resp'.op = "list"
      /\ resp'.args.page # JNull
      /\ resp'.args.limit # JNull
      /\ ~(parse_int(resp'.args.page).valid /\ parse_int(resp'.args.limit).valid)
      /\ all(store) # {}) =>
        /\ resp'.status = HTTP_200_OK
        /\ Len(resp'.body.v) >= 1
        /\ Ascending(NamesOf(resp'.body))]_vars

(***************************************************************************)
(* C25 *)
(***************************************************************************)
\* C25: a discontinue request on an active product is accepted (200)
\* exactly when one of the confirm values it supplies, in the query or in
\* the JSON body, is true, 1, or true / yes / 1 / y in any case.
C25_ConfirmationValues ==
  [][\A id \in Ids : \A c \in Confirmations :
       (Active(store, id) /\ DiscontinueProductResource_post(id, c[1], c[2])) =>
         (resp'.status = HTTP_200_OK <=> \E x \in Supplied(c) : TruthyValue(x))]_vars

(***************************************************************************)
(* C27 *)
(***************************************************************************)
\* C27: the confirmation is tested before the lookup.  A discontinue
\* request whose confirm values are absent or falsy answers 400 for every
\* id, that of an active product, of a discontinued one and of no product,
\* and leaves the store as it was; a discontinue request answers 404 only
\* when it supplies a truthy confirm value and the id is not that of an
\* active product.
C27_ConfirmationBeforeLookup ==
  \A id \in Ids : \A c \in Confirmations :
    \A r \in {discontinue(store, id, c[1], c[2], clock)} :
      /\ c \in Unconfirmed =>
           /\ r.resp.status = HTTP_400_BAD_REQUEST
           /\ r.store = store
      /\ r.resp.status = HTTP_404_NOT_FOUND =>
           /\ \E x \in Supplied(c) : TruthyValue(x)
           /\ ~Active(store, id)
      /\ (c \in Truthy /\ ~Active(store, id)) =>
           r.resp.status = HTTP_404_NOT_FOUND

\* a discontinue request was refused with 400 on the id of a discontinued
\* product
C27_Witness ==
  /\ resp.op = "discontinue"
  /\ resp.status = HTTP_400_BAD_REQUEST
  /\ find(store, resp.id) # JNull
  /\ find(store, resp.id).discontinued

(***************************************************************************)
(* C29 *)
(***************************************************************************)
\* page and limit values of a request that supplies one of the two
PageValues == {Q(<<"0">>), Q(<<"1">>), Q(<<"2">>)}

\* C29: a list request that supplies page without limit, or limit without
\* page, answers as the request without either: 200 with the whole sorted
\* result of its filter.
C29_PaginationNeedsBoth ==
  \A q \in PagedQueries : \A order \in QueryOrders(store) :
    \A whole \in {list(store, order, q)} :
      /\ whole.status = HTTP_200_OK
      /\ Len(whole.body.v) = Cardinality(Filtered(store, q))
      /\ \A x \in PageValues :
           /\ list(store, order, [q EXCEPT !.page = x]) = whole
           /\ list(store, order, [q EXCEPT !.limit = x]) = whole

\* page=2 without limit has been answered with two products
C29_Witness ==
  /\ resp.op = "list"
  /\ resp.status = HTTP_200_OK
  /\ resp.args.page = Q(<<"2">>)
  /\ resp.args.limit = JNull
  /\ Len(resp.body.v) = 2

(***************************************************************************)
(* C22 *)
(***************************************************************************)
\* C22: created_date is set once, by the server.  A create stores the time
\* of the request whatever its body carries, and no later request changes
\* the created_date of a stored product.
C22_CreatedDateSetOnce ==
  [][\A id \in Ids :
       /\ (find(store, id) = JNull /\ find(store', id) # JNull) =>
            find(store', id).created_date = clock
       /\ (find(store, id) # JNull /\ find(store', id) # JNull) =>
            find(store', id).created_date = find(store, id).created_date]_vars

(***************************************************************************)
(* C23 *)
(***************************************************************************)
\* C23: updated_date is the time of the last mutation.  A step that
\* changes a stored product leaves its updated_date at the time of the
\* request, whatever the body carries, and the updated_date of a stored
\* product never decreases.
C23_UpdatedDateRefreshed ==
  [][\A id \in Ids :
       (find(store, id) # JNull /\ find(store', id) # JNull) =>
         /\ find(store', id) # find(store, id) =>
              find(store', id).updated_date = clock
         /\ find(store', id).updated_date >= find(store, id).updated_date]_vars

(***************************************************************************)
(* C24 *)
(***************************************************************************)
\* the fields a round trip keeps
RoundTripFields == Columns \ Dates

\* C24: for every stored product P, deserialize of serialize(P) on a fresh
\* instance succeeds and gives the name, description, image_url, category,
\* availability, discontinued and favorited of P and, as price, the decimal
\* string of the price of P; stored again under the id of P, the instance
\* is the row of P.
C24_RoundTrip ==
  \A P \in Rows(store) :
    \A d \in {deserialize(Fresh, serialize(P), clock)} :
      /\ d.error = ""
      /\ \A c \in RoundTripFields \ {"price"} : d.attrs[c] = Loaded(P)[c]
      /\ d.attrs["price"] = JStr(DecimalStr(P.price))
      /\ Storable("price", d.attrs["price"])
      /\ Stored("price", d.attrs["price"]) = P.price
      /\ Insert(d.attrs, P.id, clock) = P

\* a product is stored whose flags and optional fields are not the
\* defaults and whose price was given as the number 10: its round trip
\* carries the price string 10.00
C24_Witness ==
  \E P \in Rows(store) :
    /\ P.favorited
    /\ P.description = JNull
    /\ P.price = 1000
    /\ deserialize(Fresh, serialize(P), clock).attrs["price"]
         = JStr(<<"1", "0", ".", "0", "0">>)

(***************************************************************************)
(* C28 *)
(***************************************************************************)
\* the bodies on which deserialize fails after it has assigned a field of
\* the instance of product: a required key is missing behind one that is
\* there with another value
HalfAssigned(product) ==
  {p \in PartialBodies :
     /\ deserialize(Loaded(product), p, clock).error = "KeyError"
     /\ deserialize(Loaded(product), p, clock).attrs # Loaded(product)}

\* C28: an update that fails in deserialize after some fields of the loaded
\* instance have been assigned answers 400 and leaves the stored product as
\* it was, in every field: a following GET answers as it did before.
C28_RejectedUpdateKeepsRow ==
  \A id \in Ids :
    Active(store, id) =>
      \A p \in HalfAssigned(find(store, id)) :
        \A r \in {put(store, id, JStr(JSON), p, clock)} :
          /\ r.resp.status = HTTP_400_BAD_REQUEST
          /\ r.store = store
          /\ get(r.store, id) = get(store, id)

\* an update of an active product has been refused for a missing key, and
\* a body with that answer had assigned a field before the key was missed
C28_Witness ==
  /\ resp.op = "put"
  /\ resp.status = HTTP_400_BAD_REQUEST
  /\ resp.body = ErrorBody("KeyError")
  /\ Active(store, resp.id)
  /\ HalfAssigned(find(store, resp.id)) # {}

(***************************************************************************)
(* C21 *)
(***************************************************************************)
\* C21: when the commit of a create, update or delete fails, the session
\* is rolled back and the request ends with DataValidationError; the store
\* holds the products and field values it held before: no row added by the
\* failed create, no field changed by the failed update, the row still
\* there after the failed delete, although the flush had written them.
C21_RollbackOnFailure ==
  [][\A w \in Workers :
       CommitFails(w) =>
         /\ store' = store
         /\ \A id \in Ids : get(store', id) = get(store, id)
         /\ resp'.body = ErrorBody("commit failed")
         /\ resp'.status = DataValidationErrorStatus
         /\ session'[w] = Idle]_vars

\* the commit of a delete has failed and the product is still stored,
\* where the commit would have removed it
C21_Witness ==
  /\ resp.op = "delete"
  /\ resp.body = ErrorBody("commit failed")
  /\ find(store, resp.id) # JNull
  /\ delete(store, resp.id).store # store

(***************************************************************************)
(* C26 *)
(***************************************************************************)
\* C26: last write wins.  When the update of a request commits and answers
\* 200, the stored product is, in every field, what this request alone
\* makes of the product it loaded, whatever other requests committed
\* between its load and its commit.
C26_LastWriteWins ==
  [][\A w \in Workers :
       (/\ session[w] # Idle
        /\ session[w].op = "put"
        /\ Commit(w)
        /\ resp'.status = HTTP_200_OK) =>
          find(store', session[w].id)
            = Update(session[w].loaded, session[w].attrs, clock)]_vars

(***************************************************************************)
(* C30 *)
(***************************************************************************)
\* C30: once the discontinuation of a product is committed, the commit of
\* a favorite, unfavorite or update request that had loaded the product
\* while it was active changes no field of the stored product.
C30_NoWriteAfterDiscontinue ==
  [][\A w \in Workers :
       (/\ session[w] # Idle
        /\ session[w].op \in {"favorite", "unfavorite", "put"}
        /\ find(store, session[w].id) # JNull
        /\ find(store, session[w].id).discontinued
        /\ ~session[w].loaded.discontinued
        /\ Commit(w)) =>
          find(store', session[w].id) = find(store, session[w].id)]_vars
=============================================================================
